---------------------------- MODULE Spec2Model ----------------------------
(***************************************************************************)
(* A model of the hexyl line-rendering engine (src/src/lib.rs): the         *)
(* Printer that turns a byte stream into bordered hex-dump rows, the        *)
(* WindowSize it is configured with, the reader loop of print_all and the   *)
(* output sink.  Text is modelled as a sequence of characters (one-element  *)
(* strings); an ANSI escape sequence is one element, and a character      *)
(* outside ASCII is written by its code point, "U+2502".                    *)
(***************************************************************************)
EXTENDS Integers, Sequences, FiniteSets, TLC

(***************************************************************************)
(* Bounds of the model.                                                     *)
(***************************************************************************)
MaxLen == 7          \* longest input, in bytes
MaxHalf == 2         \* largest half row width: row widths are 2, 4, ..., 2*MaxHalf
MaxFails == 2        \* how many writes the sink may reject in one run
MaxChunk == 2        \* the most bytes one read of the reader returns
MaxWidthArg == 70    \* largest argument given to WindowSize::new
MaxHeaderCalls == 1  \* how often the caller calls header() itself

BUFFER_SIZE == 256

InputBytes == {0, 97}
Styles == {"Unicode", "Ascii", "None"}

Min(a, b) == IF a < b THEN a ELSE b

\* F(v), with v evaluated once: `let x = v` of the source
With(v, F(_)) == CHOOSE r \in {F(x) : x \in {v}} : TRUE

(***************************************************************************)
(* Text helpers: what the format machinery of Rust does.                    *)
(***************************************************************************)
Spaces(n) == [i \in 1..n |-> " "]

HexDigit == <<"0", "1", "2", "3", "4", "5", "6", "7",
              "8", "9", "a", "b", "c", "d", "e", "f">>

(***************************************************************************)
(* u64.  To keep the full width of 64 bits, a u64 is the sequence of its    *)
(* 16 hexadecimal digits, most significant first; idx, which counts the     *)
(* bytes of a bounded input, is a number.                                   *)
(***************************************************************************)
RECURSIVE Nibbles(_, _)
Nibbles(n, k) ==
    IF k = 0 THEN <<>> ELSE Nibbles(n \div 16, k - 1) \o <<n % 16>>

U64(n) == Nibbles(n, 16)

U64Max == [i \in 1..16 |-> 15]

\* a + k for a u64 a and a number k >= 0: the 16 digits of the sum, and the
\* carry out of the top digit
RECURSIVE AddFrom(_, _, _)
AddFrom(a, i, carry) ==
    IF i = 0 THEN [digits |-> a, carry |-> carry]
    ELSE AddFrom([a EXCEPT ![i] = (a[i] + carry) % 16], i - 1, (a[i] + carry) \div 16)

Add64(a, k) == AddFrom(a, 16, k)

\* format!("{:0width$x}", v) for a u64 v: the digits of v without leading
\* zeros, then zero-padded to at least `width` digits, never truncated
RECURSIVE Significant(_)
Significant(ds) ==
    IF Len(ds) > 1 /\ ds[1] = 0 THEN Significant(Tail(ds)) ELSE ds

FormatHex64(v, width) ==
    LET ds == [i \in DOMAIN Significant(v) |-> HexDigit[Significant(v)[i] + 1]]
    IN IF Len(ds) >= width THEN ds
       ELSE [i \in 1..(width - Len(ds)) |-> "0"] \o ds

\* format!("{:0width$x}", n) for a small number n
RECURSIVE HexDigits(_)
HexDigits(n) ==
    IF n < 16 THEN <<HexDigit[n + 1]>>
    ELSE HexDigits(n \div 16) \o <<HexDigit[(n % 16) + 1]>>

FormatHex(n, width) ==
    LET ds == HexDigits(n)
    IN IF Len(ds) >= width THEN ds
       ELSE [i \in 1..(width - Len(ds)) |-> "0"] \o ds

\* ansi_term: Style::paint(text).to_string()
Paint(code, text) == <<code>> \o text \o <<"ESC[0m">>

COLOR_NULL == "ESC[38;5;242m"
COLOR_OFFSET == "ESC[38;5;242m"
COLOR_ASCII_PRINTABLE == "ESC[36m"
COLOR_ASCII_WHITESPACE == "ESC[32m"
COLOR_ASCII_OTHER == "ESC[35m"
COLOR_NONASCII == "ESC[33m"

(***************************************************************************)
(* Byte::category, Byte::color, Byte::as_char.                              *)
(***************************************************************************)
AsciiGraphic ==
    <<"!", "\"", "#", "$", "%", "&", "'", "(", ")", "*", "+", ",", "-", ".", "/",
      "0", "1", "2", "3", "4", "5", "6", "7", "8", "9", ":", ";", "<", "=", ">", "?",
      "@", "A", "B", "C", "D", "E", "F", "G", "H", "I", "J", "K", "L", "M", "N", "O",
      "P", "Q", "R", "S", "T", "U", "V", "W", "X", "Y", "Z", "[", "\\", "]", "^", "_",
      "U+0060", "a", "b", "c", "d", "e", "f", "g", "h", "i", "j", "k", "l", "m", "n", "o",
      "p", "q", "r", "s", "t", "u", "v", "w", "x", "y", "z", "{", "|", "}", "~">>

category(b) ==
    IF b = 0 THEN "Null"
    ELSE IF b >= 33 /\ b <= 126 THEN "AsciiPrintable"
    ELSE IF b \in {9, 10, 12, 13, 32} THEN "AsciiWhitespace"
    ELSE IF b < 128 THEN "AsciiOther"
    ELSE "NonAscii"

color(b) ==
    CASE category(b) = "Null" -> COLOR_NULL
      [] category(b) = "AsciiPrintable" -> COLOR_ASCII_PRINTABLE
      [] category(b) = "AsciiWhitespace" -> COLOR_ASCII_WHITESPACE
      [] category(b) = "AsciiOther" -> COLOR_ASCII_OTHER
      [] category(b) = "NonAscii" -> COLOR_NONASCII

as_char(b) ==
    CASE category(b) = "Null" -> "0"
      [] category(b) = "AsciiPrintable" -> AsciiGraphic[b - 32]
      [] category(b) = "AsciiWhitespace" /\ b = 32 -> " "
      [] category(b) = "AsciiWhitespace" /\ b # 32 -> "_"
      [] category(b) = "AsciiOther" -> "U+2022"
      [] category(b) = "NonAscii" -> "U+00D7"

\* byte_hex_table with "{:x} " for "{:02x} "
byte_hex_table_unpadded(b, show) ==
    LET byte_hex == FormatHex(b, 1) \o <<" ">>
    IN IF show THEN Paint(color(b), byte_hex) ELSE byte_hex

\* the two lookup tables Printer::new builds
byte_hex_table(b, show) ==
    LET byte_hex == FormatHex(b, 2) \o <<" ">>
    IN IF show THEN Paint(color(b), byte_hex) ELSE byte_hex

byte_char_table(b, show) ==
    LET byte_char == <<as_char(b)>>
    IN IF show THEN Paint(color(b), byte_char) ELSE byte_char

(***************************************************************************)
(* WindowSize.                                                              *)
(***************************************************************************)
\* WindowSize::new without the test of n % 2
WindowSize_new_unchecked(n) == [ok |-> TRUE, ws |-> n]

WindowSize_new(n) ==
    IF n % 2 = 0 THEN [ok |-> TRUE, ws |-> n] ELSE [ok |-> FALSE, ws |-> 0]

half(ws) == ws \div 2

full(ws) == ws

(***************************************************************************)
(* BorderStyle.                                                             *)
(***************************************************************************)
header_elems(style) ==
    CASE style = "Unicode" ->
           [some |-> TRUE, left_corner |-> "U+250C", horizontal_line |-> "U+2500",
            column_separator |-> "U+252C", right_corner |-> "U+2510"]
      [] style = "Ascii" ->
           [some |-> TRUE, left_corner |-> "+", horizontal_line |-> "-",
            column_separator |-> "+", right_corner |-> "+"]
      [] style = "None" ->
           [some |-> FALSE, left_corner |-> "", horizontal_line |-> "",
            column_separator |-> "", right_corner |-> ""]

footer_elems(style) ==
    CASE style = "Unicode" ->
           [some |-> TRUE, left_corner |-> "U+2514", horizontal_line |-> "U+2500",
            column_separator |-> "U+2534", right_corner |-> "U+2518"]
      [] style = "Ascii" ->
           [some |-> TRUE, left_corner |-> "+", horizontal_line |-> "-",
            column_separator |-> "+", right_corner |-> "+"]
      [] style = "None" ->
           [some |-> FALSE, left_corner |-> "", horizontal_line |-> "",
            column_separator |-> "", right_corner |-> ""]

outer_sep(style) ==
    CASE style = "Unicode" -> "U+2502"
      [] style = "Ascii" -> "|"
      [] style = "None" -> " "

inner_sep(style) ==
    CASE style = "Unicode" -> "U+250A"
      [] style = "Ascii" -> "|"
      [] style = "None" -> " "

(***************************************************************************)
(* Squeezer (module squeezer): the duplicate-row detector.  `prev` is the   *)
(* previous completed row (empty: none yet), `cur` the bytes observed of    *)
(* the row in progress, `matching` whether those bytes equal the bytes at   *)
(* the same positions of `prev`, `run` whether the row committed last was   *)
(* part of a duplicate run.                                                 *)
(***************************************************************************)
Squeezer_new(enabled) ==
    [enabled |-> enabled, prev |-> <<>>, cur |-> <<>>, matching |-> FALSE,
     run |-> FALSE]

process(s, ws, b, i) ==
    IF ~s.enabled THEN s
    ELSE LET at == (i - 1) % full(ws)
             same == at < Len(s.prev) /\ s.prev[at + 1] = b
         IN IF at = 0
            THEN [s EXCEPT !.cur = <<b>>, !.matching = same]
            ELSE [s EXCEPT !.cur = Append(@, b), !.matching = @ /\ same]

\* action that compares the bytes observed and not the length of the rows
action_ignoring_length(s) ==
    IF ~s.enabled THEN "Ignore"
    ELSE IF ~s.matching THEN "Ignore"
    ELSE IF ~s.run THEN "Print"
    ELSE "Delete"

action(s) ==
    IF ~s.enabled THEN "Ignore"
    ELSE IF ~(s.matching /\ Len(s.cur) = Len(s.prev)) THEN "Ignore"
    ELSE IF ~s.run THEN "Print"
    ELSE "Delete"

advance(s) ==
    IF ~s.enabled THEN s
    ELSE [s EXCEPT !.prev = s.cur, !.cur = <<>>, !.matching = FALSE,
                   !.run = (action(s) # "Ignore")]

active(s) == s.enabled /\ s.run

(***************************************************************************)
(* The output sink.  `out` is the text the sink has accepted, `wlog` the    *)
(* writes it was asked for, in order, each with what was written ("header", *)
(* "footer", "row", "placeholder", "close") and the sink's verdict, and     *)
(* `fails` how many it rejected.  Write::write_all of an empty buffer       *)
(* returns Ok without calling the sink.  `ok` is the sink's verdict.        *)
(***************************************************************************)
write_all(p, data, kind, ok) ==
    IF data = <<>> THEN [p EXCEPT !.res = "Ok"]
    ELSE IF ok THEN [p EXCEPT !.out = @ \o data, !.res = "Ok",
                              !.wlog = Append(@, <<kind, TRUE>>)]
    ELSE [p EXCEPT !.fails = @ + 1, !.res = "Err",
                   !.wlog = Append(@, <<kind, FALSE>>)]

(***************************************************************************)
(* Printer.  A printer is a record of the struct's fields, of the sink it   *)
(* writes to, of the result `res` of the io::Result returned last, and of   *)
(* `panicked`.                                                              *)
(***************************************************************************)
Repeat(c, n) == [i \in 1..n |-> c]

\* border_line with main segments of half * 3 characters
border_line_short_main(ws, be) ==
    LET half_window_size == half(ws)
        side_segment == Repeat(be.horizontal_line, half_window_size)
        main_segment == Repeat(be.horizontal_line, half_window_size * 3)
        l == <<be.left_corner>>
        c == <<be.column_separator>>
        r == <<be.right_corner>>
    IN l \o side_segment \o c \o main_segment \o c \o main_segment
         \o c \o side_segment \o c \o side_segment \o r \o <<"\n">>

border_line(ws, be) ==
    LET half_window_size == half(ws)
        side_segment == Repeat(be.horizontal_line, half_window_size)
        main_segment == Repeat(be.horizontal_line, half_window_size * 3 + 1)
        l == <<be.left_corner>>
        c == <<be.column_separator>>
        r == <<be.right_corner>>
    IN l \o side_segment \o c \o main_segment \o c \o main_segment
         \o c \o side_segment \o c \o side_segment \o r \o <<"\n">>

\* the result of writeln! is dropped
print_border_elements(p, be, kind, ok) ==
    [write_all(p, border_line(p.window_size, be), kind, ok) EXCEPT !.res = p.res]

header(p, ok) ==
    IF header_elems(p.border_style).some
    THEN print_border_elements(p, header_elems(p.border_style), "header", ok)
    ELSE p

footer(p, ok) ==
    IF footer_elems(p.border_style).some
    THEN print_border_elements(p, footer_elems(p.border_style), "footer", ok)
    ELSE p

\* position with self.idx for self.idx - 1
position_from_one(p) ==
    LET sum == Add64(p.display_offset, p.idx)
    IN IF sum.carry = 0 THEN [panics |-> FALSE, value |-> sum.digits]
       ELSE IF p.overflow_checks THEN [panics |-> TRUE, value |-> sum.digits]
       ELSE [panics |-> FALSE, value |-> sum.digits]

\* self.idx - 1 + self.display_offset in u64: past u64::MAX the addition
\* panics when the build checks overflow and wraps when it does not
position(p) ==
    LET sum == Add64(p.display_offset, p.idx - 1)
    IN IF sum.carry = 0 THEN [panics |-> FALSE, value |-> sum.digits]
       ELSE IF p.overflow_checks THEN [panics |-> TRUE, value |-> sum.digits]
       ELSE [panics |-> FALSE, value |-> sum.digits]

\* print_position_indicator without `self.header_was_printed = true`
print_position_indicator_flagless(p, hok) ==
    With(IF ~p.header_was_printed THEN header(p, hok) ELSE p, LAMBDA p1 :
    With(position(p1), LAMBDA at :
    LET byte_index == FormatHex64(at.value, half(p1.window_size))
        formatted_string == IF p1.show_color THEN Paint(COLOR_OFFSET, byte_index)
                            ELSE byte_index
        sep == <<outer_sep(p1.border_style)>>
    IN IF at.panics THEN [p1 EXCEPT !.panicked = TRUE]
       ELSE [p1 EXCEPT !.buffer_line =
                          @ \o sep \o formatted_string \o sep \o <<" ">>]))

print_position_indicator(p, hok) ==
    With(IF ~p.header_was_printed
         THEN [header(p, hok) EXCEPT !.header_was_printed = TRUE]
         ELSE p, LAMBDA p1 :
    With(position(p1), LAMBDA at :
    LET byte_index == FormatHex64(at.value, half(p1.window_size))
        formatted_string == IF p1.show_color THEN Paint(COLOR_OFFSET, byte_index)
                            ELSE byte_index
        sep == <<outer_sep(p1.border_style)>>
    IN IF at.panics THEN [p1 EXCEPT !.panicked = TRUE]
       ELSE [p1 EXCEPT !.buffer_line =
                          @ \o sep \o formatted_string \o sep \o <<" ">>]))

\* the address-only row that closes a duplicate run (lines 384-393)
closing_text(p) ==
    LET half_window_size == half(p.window_size)
        i == <<inner_sep(p.border_style)>>
        o == <<outer_sep(p.border_style)>>
    IN Spaces(half_window_size * 3) \o i \o Spaces(half_window_size * 3 + 1) \o o
         \o Spaces(half_window_size) \o i \o Spaces(half_window_size) \o o
         \o <<"\n">>

\* hex_padding without the branch for a row shorter than a panel
hex_padding_one_branch(p) ==
    LET half_window_size == half(p.window_size)
        len == Len(p.raw_line)
        o == <<outer_sep(p.border_style)>>
    IN Spaces(3 * (half_window_size * 2 - len)) \o o

\* padding of the hex area (lines 402-420)
hex_padding(p) ==
    LET half_window_size == half(p.window_size)
        len == Len(p.raw_line)
        i == <<inner_sep(p.border_style)>>
        o == <<outer_sep(p.border_style)>>
    IN IF len < half_window_size
       THEN Spaces(3 * (half_window_size - len)) \o i
              \o Spaces(half_window_size * 3 + 1) \o o
       ELSE Spaces(3 * (half_window_size * 2 - len)) \o o

\* the char panels of the row (lines 422-435)
RECURSIVE char_columns(_, _)
char_columns(p, n) ==
    IF n = 0 THEN <<>>
    ELSE char_columns(p, n - 1)
           \o byte_char_table(p.raw_line[n], p.show_color)
           \o (IF n = half(p.window_size) THEN <<inner_sep(p.border_style)>>
               ELSE <<>>)

\* padding of the char area and the end of the line (lines 437-455)
char_padding(p) ==
    LET half_window_size == half(p.window_size)
        len == Len(p.raw_line)
        i == <<inner_sep(p.border_style)>>
        o == <<outer_sep(p.border_style)>>
    IN IF len < half_window_size
       THEN Spaces(half_window_size - len) \o i \o Spaces(half_window_size) \o o
              \o <<"\n">>
       ELSE Spaces(half_window_size * 2 - len) \o o \o <<"\n">>

\* the placeholder row of a duplicate run (lines 460-477)
placeholder_text(p) ==
    LET half_window_size == half(p.window_size)
        asterisk == IF p.show_color THEN Paint(COLOR_OFFSET, <<"*">>) ELSE <<"*">>
        i == <<inner_sep(p.border_style)>>
        o == <<outer_sep(p.border_style)>>
    IN o \o asterisk \o Spaces(half_window_size - 1) \o o
         \o Spaces(half_window_size * 3 + 1) \o i
         \o Spaces(half_window_size * 3 + 1) \o o
         \o Spaces(half_window_size) \o i \o Spaces(half_window_size) \o o
         \o <<"\n">>

\* print_textline_empty without the test of squeezer.active()
print_textline_empty_always(p, hok, rok) ==
    With(print_position_indicator(p, hok), LAMBDA p1 :
    IF p1.panicked THEN p1
    ELSE With([p1 EXCEPT !.buffer_line = @ \o closing_text(p1)], LAMBDA p2 :
         write_all(p2, p2.buffer_line, "close", rok)))

\* print_textline on an empty row (lines 381-397): the closing row of a run
print_textline_empty(p, hok, rok) ==
    IF active(p.squeezer)
    THEN With(print_position_indicator(p, hok), LAMBDA p1 :
         IF p1.panicked THEN p1
         ELSE With([p1 EXCEPT !.buffer_line = @ \o closing_text(p1)], LAMBDA p2 :
              write_all(p2, p2.buffer_line, "close", rok)))
    ELSE [p EXCEPT !.res = "Ok"]

\* print_textline_row with `SqueezeAction::Delete => ()`
print_textline_row_keeps_deleted(p, rok) ==
    With(action(p.squeezer), LAMBDA squeeze_action :
    With(IF squeeze_action # "Delete"
         THEN [p EXCEPT !.buffer_line =
                  @ \o hex_padding(p) \o char_columns(p, Len(p.raw_line))
                    \o char_padding(p)]
         ELSE p, LAMBDA p1 :
    With(IF squeeze_action = "Print"
         THEN [p1 EXCEPT !.buffer_line = placeholder_text(p1)]
         ELSE p1, LAMBDA p2 :
    With(write_all(p2, p2.buffer_line,
                   IF squeeze_action = "Print" THEN "placeholder" ELSE "row",
                   rok), LAMBDA p3 :
    IF p3.res = "Err" THEN p3
    ELSE [p3 EXCEPT !.raw_line = <<>>, !.buffer_line = <<>>,
                    !.squeezer = advance(@)]))))

\* print_textline on a row that holds bytes (lines 399-490)
print_textline_row(p, rok) ==
    With(action(p.squeezer), LAMBDA squeeze_action :
    With(IF squeeze_action # "Delete"
         THEN [p EXCEPT !.buffer_line =
                  @ \o hex_padding(p) \o char_columns(p, Len(p.raw_line))
                    \o char_padding(p)]
         ELSE p, LAMBDA p1 :
    With(CASE squeeze_action = "Print" ->
                [p1 EXCEPT !.buffer_line = placeholder_text(p1)]
           [] squeeze_action = "Delete" ->
                [p1 EXCEPT !.buffer_line = <<>>]
           [] squeeze_action = "Ignore" -> p1, LAMBDA p2 :
    With(write_all(p2, p2.buffer_line,
                   IF squeeze_action = "Print" THEN "placeholder" ELSE "row",
                   rok), LAMBDA p3 :
    IF p3.res = "Err" THEN p3
    ELSE [p3 EXCEPT !.raw_line = <<>>, !.buffer_line = <<>>,
                    !.squeezer = advance(@)]))))

print_textline(p, hok, rok) ==
    IF Len(p.raw_line) = 0
    THEN print_textline_empty(p, hok, rok)
    ELSE print_textline_row(p, rok)

\* print_byte without `self.idx += 1`
print_byte_uncounted(p, b, hok, rok) ==
    LET half_window_boundary == half(p.window_size)
        full_window_boundary == full(p.window_size)
    IN IF full_window_boundary = 0 THEN [p EXCEPT !.panicked = TRUE]
       ELSE
       With(IF p.idx % full_window_boundary = 1
            THEN print_position_indicator(p, hok)
            ELSE p, LAMBDA p1 :
       IF p1.panicked THEN p1
       ELSE
       With([p1 EXCEPT
               !.buffer_line = @ \o byte_hex_table(b, p1.show_color),
               !.raw_line = Append(@, b),
               !.squeezer = process(@, p1.window_size, b, p1.idx)], LAMBDA p2 :
       IF p2.idx % full_window_boundary = half_window_boundary
       THEN [p2 EXCEPT !.buffer_line =
                @ \o <<inner_sep(p2.border_style), " ">>, !.res = "Ok"]
       ELSE IF p2.idx % full_window_boundary = 0
       THEN print_textline(p2, hok, rok)
       ELSE [p2 EXCEPT !.res = "Ok"]))

print_byte(p, b, hok, rok) ==
    LET half_window_boundary == half(p.window_size)
        full_window_boundary == full(p.window_size)
    IN IF full_window_boundary = 0 THEN [p EXCEPT !.panicked = TRUE]
       ELSE
       With(IF p.idx % full_window_boundary = 1
            THEN print_position_indicator(p, hok)
            ELSE p, LAMBDA p1 :
       IF p1.panicked THEN p1
       ELSE
       With([p1 EXCEPT
               !.buffer_line = @ \o byte_hex_table(b, p1.show_color),
               !.raw_line = Append(@, b),
               !.squeezer = process(@, p1.window_size, b, p1.idx)], LAMBDA p2 :
       With(IF p2.idx % full_window_boundary = half_window_boundary
            THEN [p2 EXCEPT !.buffer_line =
                     @ \o <<inner_sep(p2.border_style), " ">>, !.res = "Ok"]
            ELSE IF p2.idx % full_window_boundary = 0
            THEN print_textline(p2, hok, rok)
            ELSE [p2 EXCEPT !.res = "Ok"], LAMBDA p3 :
       IF p3.res = "Err" THEN p3
       ELSE [p3 EXCEPT !.idx = @ + 1])))

(***************************************************************************)
(* State.  The fields of the Printer, the sink, the reader, and where       *)
(* the caller is: pc is "new" before WindowSize::new, "rejected" after it   *)
(* failed, "read" at reader.read of print_all, "feed" inside the for loop,  *)
(* "finish" after the main loop, then "done", "error" (print_all returned   *)
(* the read error) or "panic".                                              *)
(***************************************************************************)
VARIABLES
    window_arg,          \* the n given to WindowSize::new
    idx, raw_line, buffer_line, show_color, border_style, header_was_printed,
    squeezer, display_offset, window_size,
    out, wlog, fails,    \* the sink
    sink_budget,         \* how many writes the sink is going to reject
    input, pos, avail,   \* the reader: its bytes, how many were fed, buffer[..size] left
    overflow_checks,     \* whether the build checks integer overflow
    pc, result

vars == <<window_arg, idx, raw_line, buffer_line, show_color, border_style,
          header_was_printed, squeezer, display_offset, window_size,
          out, wlog, fails, sink_budget, input, pos, avail, overflow_checks,
          pc, result>>

config == <<window_arg, show_color, border_style, display_offset, input,
            overflow_checks, sink_budget>>

Self ==
    [idx |-> idx, raw_line |-> raw_line, buffer_line |-> buffer_line,
     show_color |-> show_color, border_style |-> border_style,
     header_was_printed |-> header_was_printed, squeezer |-> squeezer,
     display_offset |-> display_offset, window_size |-> window_size,
     out |-> out, wlog |-> wlog, fails |-> fails,
     overflow_checks |-> overflow_checks, res |-> "Ok", panicked |-> FALSE]

\* the printer and the sink become p
Becomes(p) ==
    /\ idx' = p.idx
    /\ raw_line' = p.raw_line
    /\ buffer_line' = p.buffer_line
    /\ header_was_printed' = p.header_was_printed
    /\ squeezer' = p.squeezer
    /\ out' = p.out
    /\ wlog' = p.wlog
    /\ fails' = p.fails

\* what the sink may answer to a write
Verdicts == IF fails < sink_budget THEN BOOLEAN ELSE {TRUE}

Inputs == UNION {[1..n -> InputBytes] : n \in 0..MaxLen}

Widths == {2 * h : h \in 1..MaxHalf}

Offsets == {U64(0), U64(254)}

\* Printer::new(writer, show_color, border_style, use_squeeze), then
\* display_offset(d); the window size is still the default one
Printer_new(show, style, use_squeeze, d) ==
    /\ idx = 1
    /\ raw_line = <<>>
    /\ buffer_line = <<>>
    /\ show_color = show
    /\ border_style = style
    /\ header_was_printed = FALSE
    /\ squeezer = Squeezer_new(use_squeeze)
    /\ display_offset = d
    /\ window_size = 16
    /\ out = <<>>
    /\ wlog = <<>>
    /\ fails = 0

Init ==
    /\ window_arg \in Widths
    /\ \E show \in BOOLEAN, style \in Styles, use_squeeze \in BOOLEAN, d \in Offsets :
          Printer_new(show, style, use_squeeze, d)
    /\ input \in Inputs
    /\ sink_budget = 0
    /\ pos = 0
    /\ avail = 0
    /\ overflow_checks = FALSE
    /\ pc = "new"
    /\ result = "none"

\* WindowSize::new(n), and Printer::window_size with the value it returned
NewWindowSize ==
    /\ pc = "new"
    /\ LET r == WindowSize_new(window_arg)
       IN IF r.ok
          THEN /\ window_size' = r.ws
               /\ pc' = "read"
          ELSE /\ window_size' = window_size
               /\ pc' = "rejected"
    /\ UNCHANGED <<idx, raw_line, buffer_line, header_was_printed, squeezer,
                   out, wlog, fails, pos, avail, result>>
    /\ UNCHANGED config

\* print_all: reader.read(&mut buffer) returns size; 0 only at the end
ReadChunk ==
    /\ pc = "read"
    /\ LET left == Len(input) - pos
       IN IF left = 0
          THEN /\ avail' = 0
               /\ pc' = "finish"
          ELSE /\ \E size \in 1..Min(Min(BUFFER_SIZE, MaxChunk), left) :
                     avail' = size
               /\ pc' = "feed"
    /\ UNCHANGED <<idx, raw_line, buffer_line, header_was_printed, squeezer,
                   out, wlog, fails, pos, window_size, result>>
    /\ UNCHANGED config

\* ReadError that finishes the dump before it returns the error
ReadError_after_finish ==
    /\ pc = "read"
    /\ \E p1 \in {print_textline(Self, TRUE, TRUE)} :
       \E p2 \in {IF ~p1.header_was_printed THEN header(p1, TRUE) ELSE p1} :
          Becomes(footer(p2, TRUE))
    /\ pc' = "error"
    /\ result' = "Err"
    /\ UNCHANGED <<pos, avail, window_size>>
    /\ UNCHANGED config

\* print_all: reader.read fails and `?` returns the error
ReadError ==
    /\ pc = "read"
    /\ pc' = "error"
    /\ result' = "Err"
    /\ UNCHANGED <<idx, raw_line, buffer_line, header_was_printed, squeezer,
                   out, wlog, fails, pos, avail, window_size>>
    /\ UNCHANGED config

\* FeedByte without `break 'mainloop` on an error of print_byte
FeedByte_no_break ==
    /\ pc = "feed"
    /\ \E hok \in Verdicts, rok \in Verdicts :
          \E p \in {print_byte(Self, input[pos + 1], hok, rok)} :
             /\ p.fails <= sink_budget
             /\ Becomes(p)
             /\ IF p.panicked
                THEN /\ pc' = "panic"
                     /\ UNCHANGED <<pos, avail>>
                ELSE /\ pos' = pos + 1
                     /\ avail' = avail - 1
                     /\ pc' = IF avail = 1 THEN "read" ELSE "feed"
    /\ UNCHANGED <<window_size, result>>
    /\ UNCHANGED config

\* FeedByte with a print_textline after the last byte of every read
FeedByte_flush_per_read ==
    /\ pc = "feed"
    /\ \E hok \in Verdicts, rok \in Verdicts :
          \E p0 \in {print_byte(Self, input[pos + 1], hok, rok)} :
          \E p \in {IF avail = 1 /\ ~p0.panicked /\ p0.res = "Ok"
                     THEN print_textline(p0, hok, rok) ELSE p0} :
             /\ p.fails <= sink_budget
             /\ Becomes(p)
             /\ IF p.panicked
                THEN /\ pc' = "panic"
                     /\ UNCHANGED <<pos, avail>>
                ELSE IF p.res = "Err"
                THEN /\ pc' = "finish"
                     /\ UNCHANGED <<pos, avail>>
                ELSE /\ pos' = pos + 1
                     /\ avail' = avail - 1
                     /\ pc' = IF avail = 1 THEN "read" ELSE "feed"
    /\ UNCHANGED <<window_size, result>>
    /\ UNCHANGED config

\* print_all: one iteration of `for b in &buffer[..size]`
FeedByte ==
    /\ pc = "feed"
    /\ \E hok \in Verdicts, rok \in Verdicts :
          \E p \in {print_byte(Self, input[pos + 1], hok, rok)} :
             /\ p.fails <= sink_budget
             /\ Becomes(p)
             /\ IF p.panicked
                THEN /\ pc' = "panic"
                     /\ UNCHANGED <<pos, avail>>
                ELSE IF p.res = "Err"
                THEN /\ pc' = "finish"
                     /\ UNCHANGED <<pos, avail>>
                ELSE /\ pos' = pos + 1
                     /\ avail' = avail - 1
                     /\ pc' = IF avail = 1 THEN "read" ELSE "feed"
    /\ UNCHANGED <<window_size, result>>
    /\ UNCHANGED config

\* print_all after the main loop: the last line, the header, the footer
Finish ==
    /\ pc = "finish"
    /\ \E hok \in Verdicts, rok \in Verdicts, fok \in Verdicts :
          \E p1 \in {print_textline(Self, hok, rok)} :
             IF p1.panicked
             THEN /\ Becomes(p1)
                  /\ pc' = "panic"
                  /\ result' = result
             ELSE \E p2 \in {IF ~p1.header_was_printed THEN header(p1, hok) ELSE p1} :
                  \E p3 \in {footer(p2, fok)} :
                     /\ p3.fails <= sink_budget
                     /\ Becomes(p3)
                     /\ pc' = "done"
                     /\ result' = "Ok"
    /\ UNCHANGED <<pos, avail, window_size>>
    /\ UNCHANGED config

\* a dump from a reader that returns no error into a sink that accepts
\* every write
Next ==
    \/ NewWindowSize
    \/ ReadChunk
    \/ FeedByte
    \/ Finish

Spec == Init /\ [][Next]_vars

\* a dump from a reader that may return an error into a sink that rejects up
\* to MaxFails writes
InitIO ==
    /\ window_arg \in Widths
    /\ \E style \in Styles, use_squeeze \in BOOLEAN :
          Printer_new(FALSE, style, use_squeeze, U64(0))
    /\ input \in Inputs
    /\ sink_budget = MaxFails
    /\ pos = 0
    /\ avail = 0
    /\ overflow_checks = FALSE
    /\ pc = "new"
    /\ result = "none"

NextIO ==
    \/ NewWindowSize
    \/ ReadChunk
    \/ ReadError
    \/ FeedByte
    \/ Finish

SpecIO == InitIO /\ [][NextIO]_vars

(***************************************************************************)
(* WindowSize::new over the range of its argument, followed by a dump of a  *)
(* short input with the window size it returned.                            *)
(***************************************************************************)
InitWS ==
    /\ window_arg \in 0..MaxWidthArg
    /\ Printer_new(FALSE, "Unicode", TRUE, U64(0))
    /\ input \in {<<>>, <<97>>}
    /\ sink_budget = 0
    /\ pos = 0
    /\ avail = 0
    /\ overflow_checks = FALSE
    /\ pc = "new"
    /\ result = "none"

SpecWS == InitWS /\ [][Next]_vars

(***************************************************************************)
(* A caller that calls header() itself, up to MaxHeaderCalls times, before  *)
(* it calls print_all.                                                      *)
(***************************************************************************)
CallHeader ==
    /\ pc = "read"
    /\ pos = 0
    /\ Len(wlog) < MaxHeaderCalls
    /\ header_elems(border_style).some
    /\ \E hok \in Verdicts : Becomes(header(Self, hok))
    /\ UNCHANGED <<pos, avail, window_size, pc, result>>
    /\ UNCHANGED config

InitCalls ==
    /\ window_arg \in Widths
    /\ \E style \in Styles, use_squeeze \in BOOLEAN :
          Printer_new(FALSE, style, use_squeeze, U64(0))
    /\ input \in Inputs
    /\ sink_budget = 0
    /\ pos = 0
    /\ avail = 0
    /\ overflow_checks = FALSE
    /\ pc = "new"
    /\ result = "none"

NextCalls ==
    \/ CallHeader
    \/ NewWindowSize
    \/ ReadChunk
    \/ FeedByte
    \/ Finish

SpecCalls == InitCalls /\ [][NextCalls]_vars

(***************************************************************************)
(* A dump with a display_offset at the top of the u64 range, by a build     *)
(* that checks integer overflow or by one that does not.                    *)
(***************************************************************************)
OffsetsNearMax == {U64Max, [U64Max EXCEPT ![16] = 12]}

InitOv ==
    /\ window_arg \in Widths
    /\ \E style \in Styles, use_squeeze \in BOOLEAN, d \in OffsetsNearMax :
          Printer_new(FALSE, style, use_squeeze, d)
    /\ input \in Inputs
    /\ sink_budget = 0
    /\ pos = 0
    /\ avail = 0
    /\ overflow_checks \in BOOLEAN
    /\ pc = "new"
    /\ result = "none"

SpecOv == InitOv /\ [][Next]_vars

(***************************************************************************)
(* Reading the output back: the lines of a text, a line without its escape  *)
(* sequences, and the columns of a data row.  A row of the dump is          *)
(*   o address o " " hex panel 1 i " " hex panel 2 o chars 1 i chars 2 o    *)
(* with 3 columns for a byte in a hex panel and 1 in a char panel.          *)
(***************************************************************************)
Last(q) == q[Len(q)]

Newlines(t) == {i \in 1..Len(t) : t[i] = "\n"}

\* the k-th smallest element of a set of numbers
Nth(S, k) == CHOOSE i \in S : Cardinality({j \in S : j < i}) = k - 1

\* the lines of t, each without its newline
Lines(t) ==
    With(Newlines(t), LAMBDA nl :
       [k \in 1..Cardinality(nl) |->
           SubSeq(t, IF k = 1 THEN 1 ELSE Nth(nl, k - 1) + 1, Nth(nl, k) - 1)])

EscapeCodes ==
    {COLOR_NULL, COLOR_OFFSET, COLOR_ASCII_PRINTABLE, COLOR_ASCII_WHITESPACE,
     COLOR_ASCII_OTHER, COLOR_NONASCII, "ESC[0m"}

IsVisible(c) == c \notin EscapeCodes

Plain(line) == SelectSeq(line, IsVisible)

\* the width of the address field of a row of h-byte panels
AddrLen(line, h) == Len(line) - (8 * h + 8)

Address(line, h) == SubSeq(line, 2, 1 + AddrLen(line, h))

\* where the j-th byte of a row starts in the hex area, and is in the char area
HexColumn(line, h, j) ==
    IF j <= h THEN AddrLen(line, h) + 4 + 3 * (j - 1)
    ELSE AddrLen(line, h) + 6 + 3 * h + 3 * (j - h - 1)

CharColumn(line, h, j) ==
    IF j <= h THEN AddrLen(line, h) + 6 + 6 * h + j
    ELSE AddrLen(line, h) + 7 + 7 * h + (j - h)

HexSlot(line, h, j) == SubSeq(line, HexColumn(line, h, j), HexColumn(line, h, j) + 2)

HexValue(c) == CHOOSE v \in 0..15 : HexDigit[v + 1] = c

IsHexDigit(c) == \E v \in 0..15 : HexDigit[v + 1] = c

\* how many bytes the hex area of a row shows
Shown(line, h) == Cardinality({j \in 1..(2 * h) : HexSlot(line, h, j) # Spaces(3)})

\* the bytes the hex area of a row shows, read back from their digits
HexBytes(line, h) ==
    [j \in 1..Shown(line, h) |->
        16 * HexValue(HexSlot(line, h, j)[1]) + HexValue(HexSlot(line, h, j)[2])]

\* the glyphs the char area of a row shows in the columns of its first n bytes
CharGlyphs(line, h, n) == [j \in 1..n |-> line[CharColumn(line, h, j)]]

\* the separators of a row are where the layout puts them
SeparatorsInPlace(line, h, style) ==
    LET a == AddrLen(line, h)
    IN /\ a >= 1
       /\ line[1] = outer_sep(style)
       /\ line[a + 2] = outer_sep(style)
       /\ line[a + 3] = " "
       /\ line[a + 4 + 3 * h] = inner_sep(style)
       /\ line[a + 5 + 3 * h] = " "
       /\ line[a + 6 + 6 * h] = outer_sep(style)
       /\ line[a + 7 + 7 * h] = inner_sep(style)
       /\ line[a + 8 + 8 * h] = outer_sep(style)

\* the hex area and the char area of a row show exactly the bytes bs, in
\* order from the first column, and blanks in every other column
ShowsBytes(line, h, bs) ==
    /\ Len(bs) <= 2 * h
    /\ \A j \in 1..(2 * h) :
          IF j <= Len(bs)
          THEN /\ HexSlot(line, h, j) = FormatHex(bs[j], 2) \o <<" ">>
               /\ line[CharColumn(line, h, j)] = as_char(bs[j])
          ELSE /\ HexSlot(line, h, j) = Spaces(3)
               /\ line[CharColumn(line, h, j)] = " "
    /\ HexBytes(line, h) = bs

\* the kinds of the writes asked of the sink
Kinds(log) == [i \in DOMAIN log |-> log[i][1]]

Count(q, x) == Cardinality({i \in DOMAIN q : q[i] = x})

Bordered == border_style # "None"

\* print_all has returned Ok and the sink has accepted every write
CleanDone == pc = "done" /\ fails = 0

\* the rows of the input: row k holds bytes (k-1)*w+1 .. min(k*w, n)
RowCount(n, w) == (n + w - 1) \div w

InputRow(k) ==
    SubSeq(input, (k - 1) * window_size + 1, Min(k * window_size, Len(input)))

IsHeaderLine(line) ==
    line # <<>> /\ line[1] = header_elems(border_style).left_corner

IsFooterLine(line) ==
    line # <<>> /\ line[1] = footer_elems(border_style).left_corner

IsRowLine(line) == line # <<>> /\ line[1] = outer_sep(border_style)

\* the lines between the header and the footer of a finished dump
DataOf(lines) == IF Bordered THEN SubSeq(lines, 2, Len(lines) - 1) ELSE lines

DataLines == DataOf(Lines(out))

DataKinds == DataOf(Kinds(wlog))

RECURSIVE Concat(_)
Concat(qs) == IF qs = <<>> THEN <<>> ELSE Head(qs) \o Concat(Tail(qs))

(***************************************************************************)
(* C1.  With border style Unicode or Ascii, a dump whose writes the sink    *)
(* accepts starts with the header line, written once and before any row,    *)
(* and ends with the footer line, written once and last; for the empty      *)
(* input the output is the header line and then the footer line.  With      *)
(* border style None neither line is written.  The header and the footer    *)
(* are never asked of the sink twice, and the footer only by the end of     *)
(* print_all.                                                               *)
(***************************************************************************)
C1_HeaderFirstFooterLast ==
    /\ Count(Kinds(wlog), "header") <= 1
    /\ Count(Kinds(wlog), "footer") <= 1
    /\ Count(Kinds(wlog), "footer") = 1 => pc = "done"
    /\ (Bordered /\ fails = 0 /\ wlog # <<>>) =>
          /\ wlog[1][1] = "header"
          /\ \A i \in 2..Len(wlog) : wlog[i][1] # "header"
          /\ out[1] = header_elems(border_style).left_corner
    /\ (Bordered /\ CleanDone) =>
          \A lines \in {Lines(out)} :
             /\ Len(lines) = Len(wlog)
             /\ Len(wlog) >= 2
             /\ IsHeaderLine(lines[1])
             /\ Last(wlog)[1] = "footer"
             /\ IsFooterLine(Last(lines))
             /\ \A i \in 2..(Len(wlog) - 1) :
                   /\ wlog[i][1] \in {"row", "placeholder", "close"}
                   /\ IsRowLine(lines[i])
             /\ input = <<>> => Len(lines) = 2
    /\ ~Bordered =>
          /\ \A i \in DOMAIN wlog : wlog[i][1] \notin {"header", "footer"}
          /\ pc = "done" => \A lines \in {Lines(out)} :
                               \A i \in DOMAIN lines : lines[i][1] = " "
          /\ (CleanDone /\ input = <<>>) => out = <<>>

C1_Witness ==
    /\ CleanDone
    /\ border_style = "Unicode"
    /\ Len(Lines(out)) >= 4
    /\ Len(input) % window_size # 0

(***************************************************************************)
(* C2.  With squeezing disabled, a dump of n bytes at row width w whose     *)
(* writes the sink accepts has exactly ceil(n/w) data rows and no           *)
(* placeholder or address-only row; row k shows bytes (k-1)*w+1 ..          *)
(* min(k*w, n) of the input, in order, each once in the hex columns and     *)
(* once in the char columns, and the bytes read back from the hex columns   *)
(* of the rows, concatenated, are the input.                                *)
(***************************************************************************)
C2_RowsCarryInput ==
    (~squeezer.enabled /\ CleanDone) =>
        \A rows \in {[k \in DOMAIN DataLines |-> Plain(DataLines[k])]} :
           /\ Len(rows) = RowCount(Len(input), window_size)
           /\ \A k \in DOMAIN rows :
                 /\ DataKinds[k] = "row"
                 /\ SeparatorsInPlace(rows[k], half(window_size), border_style)
                 /\ ShowsBytes(rows[k], half(window_size), InputRow(k))
           /\ Concat([k \in DOMAIN rows |-> HexBytes(rows[k], half(window_size))])
                 = input

C2_Witness ==
    /\ ~squeezer.enabled
    /\ CleanDone
    /\ Len(DataLines) = 3
    /\ Len(input) % window_size # 0
    /\ input[1] = input[3]

(***************************************************************************)
(* The row written last.  While the sink accepts every write, the lines of  *)
(* the output are the writes of wlog, one line each; the row written last   *)
(* is the last of them, or the one before the footer, and it holds the      *)
(* bytes from the last row boundary up to the bytes fed.                    *)
(***************************************************************************)
RECURSIVE ToInt(_)
ToInt(ds) == IF ds = <<>> THEN 0 ELSE 16 * ToInt(SubSeq(ds, 1, Len(ds) - 1)) + Last(ds)

LatestIndex == IF pc = "done" /\ Bordered THEN Len(wlog) - 1 ELSE Len(wlog)

HasLatestRow == fails = 0 /\ LatestIndex >= 1 /\ wlog[LatestIndex][1] = "row"

LatestRowStart ==
    IF pc = "done" THEN window_size * ((pos - 1) \div window_size)
    ELSE window_size * ((pos \div window_size) - 1)

LatestRowBytes ==
    SubSeq(input, LatestRowStart + 1, Min(LatestRowStart + window_size, pos))

LatestLine == Plain(Lines(out)[LatestIndex])

\* a Printer as Printer::new and the builder calls leave it, on an empty sink
NewPrinter(show, style, use_squeeze, d, ws) ==
    [idx |-> 1, raw_line |-> <<>>, buffer_line |-> <<>>, show_color |-> show,
     border_style |-> style, header_was_printed |-> FALSE,
     squeezer |-> Squeezer_new(use_squeeze), display_offset |-> d,
     window_size |-> ws, out |-> <<>>, wlog |-> <<>>, fails |-> 0,
     overflow_checks |-> overflow_checks, res |-> "Ok", panicked |-> FALSE]

\* print_all of the bytes from position i on, read from a reader that returns
\* no error, into a sink that accepts every write
RECURSIVE print_all_from(_, _, _)
print_all_from(p, bytes, i) ==
    IF i > Len(bytes)
    THEN With(print_textline(p, TRUE, TRUE), LAMBDA p1 :
         footer(IF ~p1.header_was_printed THEN header(p1, TRUE) ELSE p1, TRUE))
    ELSE With(print_byte(p, bytes[i], TRUE, TRUE), LAMBDA p1 :
         print_all_from(p1, bytes, i + 1))

\* a row line without its address field
AfterAddress(line, h) == SubSeq(line, Len(line) - (8 * h + 6), Len(line))

(***************************************************************************)
(* C3.  A data row shows as its address the number of input bytes before    *)
(* its first byte plus display_offset, in hexadecimal; and the dump with a  *)
(* display_offset has the same writes, the same number of lines and, but    *)
(* for the address fields, the same lines as the dump of the same input     *)
(* with display_offset 0.                                                   *)
(***************************************************************************)
C3_AddressIsOffsetPlusPosition ==
    /\ HasLatestRow =>
          \A line \in {LatestLine} :
             Address(line, half(window_size))
                = FormatHex(LatestRowStart + ToInt(display_offset), half(window_size))
    /\ CleanDone =>
          \A other \in {print_all_from(NewPrinter(show_color, border_style,
                                                  squeezer.enabled, U64(0),
                                                  window_size), input, 1)} :
             /\ other.wlog = wlog
             /\ \A mine \in {Lines(out)}, theirs \in {Lines(other.out)} :
                   /\ Len(mine) = Len(theirs)
                   /\ \A i \in DOMAIN mine :
                         IF wlog[i][1] \in {"header", "footer"}
                         THEN mine[i] = theirs[i]
                         ELSE AfterAddress(Plain(mine[i]), half(window_size))
                                = AfterAddress(Plain(theirs[i]), half(window_size))

C3_Witness ==
    /\ CleanDone
    /\ display_offset = U64(254)
    /\ HasLatestRow
    /\ LatestRowStart > 0
    /\ Address(LatestLine, half(window_size)) = <<"1", "0", "2">>

(***************************************************************************)
(* C4.  With color disabled all lines of a finished dump have the same      *)
(* length, and the address field of every row is half the row width wide.   *)
(***************************************************************************)
C4_LinesOfEqualLength ==
    (~show_color /\ CleanDone) =>
        \A lines \in {Lines(out)} :
           /\ \A i \in DOMAIN lines, j \in DOMAIN lines : Len(lines[i]) = Len(lines[j])
           /\ \A i \in DOMAIN lines :
                 wlog[i][1] \in {"row", "close"} =>
                    AddrLen(lines[i], half(window_size)) = half(window_size)

(***************************************************************************)
(* C5.  A row of len bytes, 1 <= len <= full, has the layout of a full row: *)
(* the separators at the columns the layout fixes, whatever len is, the     *)
(* inner divider once in the hex area and once in the char area, the first  *)
(* min(len, half) bytes in hex panel 1 and the rest in hex panel 2, one     *)
(* glyph for each byte in the char panels, and blanks in the columns of the *)
(* bytes the row does not hold.                                             *)
(***************************************************************************)
C5_RowLayout ==
    HasLatestRow =>
        \A line \in {LatestLine} :
           /\ Len(LatestRowBytes) \in 1..full(window_size)
           /\ SeparatorsInPlace(line, half(window_size), border_style)
           /\ ShowsBytes(line, half(window_size), LatestRowBytes)
           /\ border_style = "Unicode" => Count(line, inner_sep(border_style)) = 2

C5_Witness ==
    /\ HasLatestRow
    /\ pc = "done"
    /\ border_style = "Unicode"
    /\ Len(LatestRowBytes) < half(window_size)
    /\ Len(wlog) >= 4

(***************************************************************************)
(* What the rows of the input are to become under squeezing: row k is       *)
(* written as it is when it differs from row k-1, becomes the placeholder   *)
(* when it equals row k-1 and row k-1 did not already equal row k-2, and    *)
(* is left out otherwise.                                                   *)
(***************************************************************************)
Rows == RowCount(Len(input), window_size)

Same(k) == k > 1 /\ InputRow(k) = InputRow(k - 1)

Fate(k) ==
    IF ~Same(k) THEN "row" ELSE IF ~Same(k - 1) THEN "placeholder" ELSE "none"

IsPrinted(k) == Fate(k) # "none"

Printed == SelectSeq([k \in 1..Rows |-> k], IsPrinted)

IsNotClose(kind) == kind # "close"

\* a placeholder row: `*` in the address field, blank panels, the separators
\* of a data row
IsPlaceholder(line, h, style) ==
    /\ AddrLen(line, h) = h
    /\ Address(line, h) = <<"*">> \o Spaces(h - 1)
    /\ SeparatorsInPlace(line, h, style)
    /\ ShowsBytes(line, h, <<>>)

(***************************************************************************)
(* C6.  With squeezing enabled, of every maximal run of byte-identical      *)
(* consecutive rows the first is written as it is, the second is written    *)
(* as one `*` placeholder row, and the others are not written; a row that   *)
(* differs from the row before it is written as it is.                      *)
(***************************************************************************)
C6_OnePlaceholderPerRun ==
    (squeezer.enabled /\ CleanDone) =>
        \A kinds \in {SelectSeq(DataKinds, IsNotClose)},
           rows \in {[k \in DOMAIN DataLines |-> Plain(DataLines[k])]} :
           /\ Len(kinds) = Len(Printed)
           /\ \A j \in DOMAIN kinds :
                 /\ kinds[j] = Fate(Printed[j])
                 /\ kinds[j] = "row" =>
                       /\ ShowsBytes(rows[j], half(window_size), InputRow(Printed[j]))
                       /\ Address(rows[j], half(window_size))
                            = FormatHex((Printed[j] - 1) * window_size
                                           + ToInt(display_offset), half(window_size))
                 /\ kinds[j] = "placeholder" =>
                       IsPlaceholder(rows[j], half(window_size), border_style)

C6_Witness ==
    /\ squeezer.enabled
    /\ CleanDone
    /\ Rows = 4
    /\ Same(2) /\ Same(3) /\ ~Same(4)
    /\ DataKinds = <<"row", "placeholder", "row">>

(***************************************************************************)
(* C7.  A finished dump has one address-only row, between the last row      *)
(* written and the footer, when the input ends on a row boundary while a    *)
(* run of identical rows is going on; its address is the length of the      *)
(* input plus display_offset and its panels are blank.  Otherwise the dump  *)
(* has no address-only row.                                                 *)
(***************************************************************************)
RunAtEnd ==
    /\ squeezer.enabled
    /\ Len(input) > 0
    /\ Len(input) % window_size = 0
    /\ Same(Rows)

C7_ClosingRow ==
    CleanDone =>
        IF RunAtEnd
        THEN /\ Count(DataKinds, "close") = 1
             /\ Last(DataKinds) = "close"
             /\ Len(DataKinds) >= 3
             /\ \A line \in {Plain(Last(DataLines))} :
                   /\ Address(line, half(window_size))
                        = FormatHex(Len(input) + ToInt(display_offset),
                                    half(window_size))
                   /\ SeparatorsInPlace(line, half(window_size), border_style)
                   /\ ShowsBytes(line, half(window_size), <<>>)
        ELSE Count(DataKinds, "close") = 0

C7_Witness ==
    /\ CleanDone
    /\ RunAtEnd
    /\ display_offset = U64(254)
    /\ Count(DataKinds, "close") = 1

(***************************************************************************)
(* C8.  WindowSize::new(w) fails for every odd w; for every even w > 0 it   *)
(* succeeds, and the window size it returns has half()*2 = full() = w.      *)
(***************************************************************************)
C8_EvenWidthsAccepted ==
    pc # "new" =>
        /\ window_arg % 2 = 1 => pc = "rejected"
        /\ (window_arg % 2 = 0 /\ window_arg > 0) =>
              /\ pc # "rejected"
              /\ half(window_size) * 2 = full(window_size)
              /\ full(window_size) = window_arg

C8_Witness ==
    /\ pc = "done"
    /\ window_arg = MaxWidthArg
    /\ full(window_size) = window_arg
    /\ input # <<>>

(***************************************************************************)
(* C9.  WindowSize::new(n) fails unless n is even and positive: 0 is        *)
(* rejected, the row width of a Printer is positive, and print_byte never   *)
(* takes the index modulo a row width of 0.                                 *)
(***************************************************************************)
C9_ZeroWidthRejected ==
    /\ (pc # "new" /\ ~(window_arg % 2 = 0 /\ window_arg > 0)) => pc = "rejected"
    /\ pc \notin {"new", "rejected"} => full(window_size) > 0
    /\ pc # "panic"

(***************************************************************************)
(* C10.  When the sink rejects the write of a row inside print_byte,        *)
(* print_byte returns the error without counting the byte and print_all     *)
(* feeds no further byte: its next and last step asks the sink              *)
(* for the row once more and then for the footer, once, asks for no header  *)
(* when one was asked for before, whatever the sink answers, and returns Ok *)
(* without a panic.                                                         *)
(***************************************************************************)
FlushFailed ==
    /\ pc = "finish"
    /\ wlog # <<>>
    /\ Last(wlog)[1] \in {"row", "placeholder"}
    /\ Last(wlog)[2] = FALSE

RowRejected ==
    /\ pc = "feed"
    /\ Len(wlog') > Len(wlog)
    /\ Last(wlog')[1] \in {"row", "placeholder"}
    /\ Last(wlog')[2] = FALSE

C10_StopAfterSinkError ==
    [][/\ RowRejected =>
          /\ pc' = "finish"
          /\ pos' = pos
          /\ avail' = avail
          /\ idx' = idx
       /\ FlushFailed =>
          /\ pos' = pos
          /\ pc' = "done"
          /\ result' = "Ok"
          /\ Len(wlog') = Len(wlog) + (IF Bordered THEN 2 ELSE 1)
          /\ SubSeq(wlog', 1, Len(wlog)) = wlog
          /\ wlog'[Len(wlog) + 1][1] = Last(wlog)[1]
          /\ Bordered => Last(wlog')[1] = "footer"
          /\ Count(Kinds(wlog'), "header") = Count(Kinds(wlog), "header")]_vars

C10_Witness ==
    /\ pc = "done"
    /\ fails = 2
    /\ pos + 1 < Len(input)
    /\ Kinds(wlog) = <<"header", "row", "row", "row", "footer">>
    /\ wlog[3][2] = FALSE
    /\ wlog[5][2] = FALSE

(***************************************************************************)
(* C11.  Whatever the caller calls, header() itself included, the sink is   *)
(* asked for the header line at most once.                                  *)
(***************************************************************************)
C11_HeaderAtMostOnce ==
    /\ Count(Kinds(wlog), "header") <= 1
    /\ Count(Kinds(wlog), "header") = 1 => header_was_printed

(***************************************************************************)
(* C12.  While print_all runs and the sink has accepted every write, idx is *)
(* 1 plus the number of bytes fed, every print_byte adds exactly 1 to it,   *)
(* raw_line holds (idx - 1) mod full bytes, the bytes fed since the last    *)
(* row boundary, and at a row boundary raw_line and buffer_line are empty.  *)
(***************************************************************************)
InPrintAll == pc \in {"read", "feed", "finish"}

C12_IndexAndRowBuffer ==
    [][/\ (InPrintAll /\ fails = 0) =>
             /\ idx = pos + 1
             /\ Len(raw_line) = (idx - 1) % full(window_size)
             /\ Len(raw_line) \in 0..full(window_size)
             /\ raw_line = SubSeq(input, pos - Len(raw_line) + 1, pos)
             /\ (idx - 1) % full(window_size) = 0 =>
                   (raw_line = <<>> /\ buffer_line = <<>>)
       /\ (pc = "feed" /\ fails' = 0) =>
             /\ pos' = pos + 1
             /\ idx' = idx + 1
       /\ pc # "feed" => idx' = idx]_vars

C12_Witness ==
    /\ pc = "finish"
    /\ fails = 0
    /\ idx = pos + 1
    /\ pos > 2 * full(window_size)
    /\ Len(raw_line) = full(window_size) - 1
    /\ squeezer.enabled

(***************************************************************************)
(* The step that completes a row: the print_byte of the last byte of a full *)
(* row, or the last print_textline of print_all on a row that holds bytes.  *)
(***************************************************************************)
RowCompletes ==
    \/ pc = "feed" /\ idx % full(window_size) = 0
    \/ pc = "finish" /\ raw_line # <<>>

\* the decision of the squeezer for the row that completes
Decision ==
    IF pc = "feed"
    THEN action(process(squeezer, window_size, input[pos + 1], idx))
    ELSE action(squeezer)

CompletedRow == IF pc = "feed" THEN Append(raw_line, input[pos + 1]) ELSE raw_line

\* what the step asks of the sink for the row, and the lines the sink gets
RowWrites ==
    SubSeq(wlog', Len(wlog) + 1,
           IF pc = "finish" /\ Bordered THEN Len(wlog') - 1 ELSE Len(wlog'))

RowLines ==
    With(Lines(out'), LAMBDA lines :
       [k \in 1..Len(RowWrites) |-> Plain(lines[Len(wlog) + k])])

\* the data rows the sink has got so far
IsDataRow(i) == wlog[i][1] = "row"

DataRowsSoFar ==
    With(Lines(out), LAMBDA lines :
       {Plain(lines[i]) : i \in {j \in DOMAIN wlog : IsDataRow(j)}})

(***************************************************************************)
(* C13.  For a completed row that holds bytes print_textline asks the sink  *)
(* for exactly the rendered row when the squeezer says Ignore, for exactly  *)
(* one placeholder line when it says Print (`*` in the address field, blank *)
(* panels, the separators and the width of the data rows) and for nothing   *)
(* when it says Delete.                                                     *)
(***************************************************************************)
C13_WritesFollowDecision ==
    [][(RowCompletes /\ fails = 0 /\ fails' = 0) =>
          \A writes \in {RowWrites}, lines \in {RowLines} :
             CASE Decision = "Ignore" ->
                    /\ Kinds(writes) = <<"row">>
                    /\ SeparatorsInPlace(lines[1], half(window_size), border_style)
                    /\ ShowsBytes(lines[1], half(window_size), CompletedRow)
               [] Decision = "Print" ->
                    /\ Kinds(writes) = <<"placeholder">>
                    /\ IsPlaceholder(lines[1], half(window_size), border_style)
                    /\ \A row \in DataRowsSoFar : Len(lines[1]) = Len(row)
               [] Decision = "Delete" ->
                    writes = <<>>]_vars

(***************************************************************************)
(* C14.  After a print_textline that returned Ok, raw_line and buffer_line  *)
(* are empty: at every row boundary inside print_all and after its last     *)
(* print_textline, also when that one wrote the address-only row that       *)
(* closes a run; so one more print_textline writes at most a line of its    *)
(* own and nothing that was written before.                                 *)
(***************************************************************************)
C14_BuffersEmptyAfterTextline ==
    /\ (InPrintAll /\ fails = 0 /\ (idx - 1) % full(window_size) = 0) =>
          (raw_line = <<>> /\ buffer_line = <<>>)
    /\ CleanDone =>
          /\ raw_line = <<>>
          /\ buffer_line = <<>>
          /\ \A again \in {print_textline(Self, TRUE, TRUE)} :
                Cardinality(Newlines(again.out)) <= Cardinality(Newlines(out)) + 1

(***************************************************************************)
(* A line the dump may hold: the header, the footer, or a row with the      *)
(* separators in place whose panels show a row of the input (a data row),   *)
(* or nothing (a placeholder or an address-only row).                       *)
(***************************************************************************)
WellFormedLine(line) ==
    \/ line \o <<"\n">> = border_line(window_size, header_elems(border_style))
    \/ line \o <<"\n">> = border_line(window_size, footer_elems(border_style))
    \/ /\ Len(line) >= 8 * half(window_size) + 9
       /\ SeparatorsInPlace(line, half(window_size), border_style)
       /\ \E bs \in {InputRow(k) : k \in 1..Rows} \cup {<<>>} :
             ShowsBytes(line, half(window_size), bs)

IsRowWrite(w) == w[1] \in {"row", "placeholder", "close"}

(***************************************************************************)
(* C15.  After the sink has rejected the write of a row it is asked for     *)
(* nothing but the header and the footer: the text of the row is not given  *)
(* to it again; and every line the sink has accepted by the end of          *)
(* print_all is a well-formed line of the dump.                             *)
(***************************************************************************)
C15_NoRetryNoCorruption ==
    /\ \A i \in DOMAIN wlog :
          (IsRowWrite(wlog[i]) /\ ~wlog[i][2]) =>
             \A j \in (i + 1)..Len(wlog) : wlog[j][1] \in {"header", "footer"}
    /\ pc = "done" =>
          \A lines \in {Lines(out)} :
             \A k \in DOMAIN lines : WellFormedLine(Plain(lines[k]))

(***************************************************************************)
(* C16.  With squeezing enabled, a last row of fewer bytes than the row     *)
(* width is decided Ignore and written as it is, as the last data row of    *)
(* the dump, also when its bytes are the first bytes of the full row before *)
(* it: it is no duplicate of that row.                                      *)
(***************************************************************************)
ShortFinalRow == Len(input) % window_size # 0

IsPrefix(a, b) == Len(a) <= Len(b) /\ a = SubSeq(b, 1, Len(a))

C16_ShortFinalRowIsNoDuplicate ==
    [][(pc = "finish" /\ squeezer.enabled /\ fails = 0 /\ raw_line # <<>>) =>
          /\ Len(raw_line) < full(window_size)
          /\ raw_line = InputRow(Rows)
          /\ Decision = "Ignore"
          /\ Kinds(RowWrites) = <<"row">>
          /\ ShowsBytes(RowLines[1], half(window_size), InputRow(Rows))
          /\ Address(RowLines[1], half(window_size))
                = FormatHex((Rows - 1) * window_size + ToInt(display_offset),
                            half(window_size))]_vars

C16_Witness ==
    /\ CleanDone
    /\ squeezer.enabled
    /\ ShortFinalRow
    /\ Rows >= 3
    /\ Same(Rows - 1)
    /\ IsPrefix(InputRow(Rows), InputRow(Rows - 1))
    /\ Last(DataKinds) = "row"

(***************************************************************************)
(* The columns of a border line that hold no horizontal line, and the       *)
(* columns where a row with an address of h characters has its separators.  *)
(***************************************************************************)
BorderColumns(line, be) ==
    {col \in 1..Len(line) : line[col] # be.horizontal_line}

RowSeparatorColumns(h) == {1, h + 2, 4 * h + 4, 7 * h + 6, 8 * h + 7, 9 * h + 8}

\* a border line: corners at its ends, column separators between segments of
\* h, 3h+1, 3h+1, h and h horizontal lines
IsBorder(line, h, be) ==
    /\ Len(line) = 9 * h + 8
    /\ line = <<be.left_corner>> \o Repeat(be.horizontal_line, h)
               \o <<be.column_separator>> \o Repeat(be.horizontal_line, 3 * h + 1)
               \o <<be.column_separator>> \o Repeat(be.horizontal_line, 3 * h + 1)
               \o <<be.column_separator>> \o Repeat(be.horizontal_line, h)
               \o <<be.column_separator>> \o Repeat(be.horizontal_line, h)
               \o <<be.right_corner>>
    /\ BorderColumns(line, be) = RowSeparatorColumns(h)

(***************************************************************************)
(* C17.  With border style Unicode or Ascii the header and the footer are   *)
(* border lines of segments half, 3*half+1, 3*half+1, half, half; a data    *)
(* row whose address has half digits is as long as they are and has a       *)
(* separator in every column where they have a corner or a column           *)
(* separator, and with style Unicode in no other column.                    *)
(***************************************************************************)
C17_BordersAlignWithRows ==
    (Bordered /\ CleanDone) =>
        \A lines \in {Lines(out)}, h \in {half(window_size)} :
           /\ IsBorder(lines[1], h, header_elems(border_style))
           /\ IsBorder(Last(lines), h, footer_elems(border_style))
           /\ \A k \in 2..(Len(lines) - 1) :
                 \A row \in {Plain(lines[k])} :
                    (wlog[k][1] = "row" /\ AddrLen(row, h) = h) =>
                       /\ Len(row) = Len(lines[1])
                       /\ \A col \in RowSeparatorColumns(h) :
                             row[col] \in {outer_sep(border_style),
                                           inner_sep(border_style)}
                       /\ border_style = "Unicode" =>
                             \A col \in 1..Len(row) :
                                row[col] \in {outer_sep(border_style),
                                              inner_sep(border_style)}
                                   => col \in RowSeparatorColumns(h)

C17_Witness ==
    /\ Bordered
    /\ CleanDone
    /\ window_size = 2 * MaxHalf
    /\ Len(wlog) >= 4
    /\ wlog[2][1] = "row"
    /\ AddrLen(Plain(Lines(out)[2]), half(window_size)) = half(window_size)
    /\ ShortFinalRow

(***************************************************************************)
(* The Printer after print_byte of the first n bytes, one call for each     *)
(* byte, into a sink that accepts every write.                              *)
(***************************************************************************)
RECURSIVE print_bytes(_, _, _)
print_bytes(p, bytes, n) ==
    IF n = 0 THEN p
    ELSE print_byte(print_bytes(p, bytes, n - 1), bytes[n], TRUE, TRUE)

Configured ==
    NewPrinter(show_color, border_style, squeezer.enabled, display_offset, window_size)

SamePrinter(p) ==
    /\ p.idx = idx
    /\ p.raw_line = raw_line
    /\ p.buffer_line = buffer_line
    /\ p.header_was_printed = header_was_printed
    /\ p.squeezer = squeezer
    /\ p.out = out
    /\ p.wlog = wlog

(***************************************************************************)
(* C18.  However the reader splits the input into reads, after the reads    *)
(* that returned the first n bytes the Printer and the text written are     *)
(* what n calls of print_byte make them, and the finished dump is the dump  *)
(* of the input fed byte by byte: the output does not depend on the reads.  *)
(***************************************************************************)
C18_ChunkingIsInvisible ==
    /\ (InPrintAll /\ fails = 0) => SamePrinter(print_bytes(Configured, input, pos))
    /\ CleanDone => SamePrinter(print_all_from(Configured, input, 1))

C18_Witness ==
    /\ pc = "feed"
    /\ avail = MaxChunk
    /\ MaxChunk >= 2
    /\ pos > window_size
    /\ pos % window_size = window_size - 1
    /\ out # <<>>

(***************************************************************************)
(* C19.  idx - 1 + display_offset stays in the u64 range for every          *)
(* display_offset and input: print_all does not panic, and the address of   *)
(* every row written, the address-only row included, is the exact sum of    *)
(* display_offset and the number of bytes before the row.                   *)
(***************************************************************************)
ExactAddress(line, before) ==
    \A sum \in {Add64(display_offset, before)} :
       /\ sum.carry = 0
       /\ Address(line, half(window_size))
            = FormatHex64(sum.digits, half(window_size))

C19_AddressInRange ==
    /\ pc # "panic"
    /\ HasLatestRow => ExactAddress(LatestLine, LatestRowStart)
    /\ (CleanDone /\ Count(DataKinds, "close") > 0) =>
          ExactAddress(Plain(Last(DataLines)), Len(input))

(***************************************************************************)
(* C20.  When reader.read returns an error, print_all returns it at once:   *)
(* the step changes nothing of the Printer and asks the sink for nothing,   *)
(* so the bytes of the row in progress stay in raw_line, no header is       *)
(* forced and no footer written, what was written stays as it is, and       *)
(* nothing follows.                                                         *)
(***************************************************************************)
C20_ReadErrorReturnsAtOnce ==
    [][/\ pc # "error"
       /\ pc' = "error" =>
             /\ pc = "read"
             /\ result' = "Err"
             /\ out' = out
             /\ wlog' = wlog
             /\ fails' = fails
             /\ idx' = idx
             /\ raw_line' = raw_line
             /\ buffer_line' = buffer_line
             /\ header_was_printed' = header_was_printed
             /\ Count(Kinds(wlog'), "footer") = 0
             /\ pos = 0 => wlog' = <<>>]_vars

C20_Witness ==
    /\ pc = "error"
    /\ result = "Err"
    /\ Bordered
    /\ pos > window_size
    /\ raw_line # <<>>
    /\ buffer_line # <<>>
    /\ Kinds(wlog) = <<"header", "row">>

=============================================================================
